---- MODULE Spec2Model ----
(***************************************************************************)
(* The control loop and scaling engine of the LXC autoscale daemon:        *)
(* the singleton lock and process lifecycle, the per-tick probe fan-out,   *)
(* the vertical scaler (adjust_resources / scale_memory), the horizontal   *)
(* scaler (manage_horizontal_scaling / scale_out) and the rollback driver. *)
(* Percentages are integers; the behaviour multiplier is kept in tenths    *)
(* and the clock in seconds.                                               *)
(***************************************************************************)
EXTENDS Integers, Sequences, FiniteSets, TLC

\* ------------------------------------------------------------------ bounds
\* ticks that may be started when no horizontal group is configured
MaxTicks == 1
\* ticks that may be started when the horizontal group is configured
MaxGroupTicks == 3
\* daemon processes that may be launched
MaxDaemons == 2
\* probe workers that run at once, and sessions the remote host accepts
MaxWorkers == 3
MaxSessions == 2

\* ------------------------------------------------------- program constants
CPU_SCALE_DIVISOR == 2
\* MEMORY_SCALE_FACTOR is 1.5, kept in tenths
MEMORY_SCALE_FACTOR_X10 == 15
TIMEOUT_EXTENDED == 60
TIMEOUT_DEFAULT == 30
DEFAULT_SCALE_OUT_GRACE == 300
DEFAULT_SCALE_IN_GRACE == 600
\* scale_last_action.get(group, now - 1 hour)
NO_ACTION_AGE == 3600
MIN_MEMORY_FLOOR == 128

\* DEFAULTS of config.py: the tier of a container named by no TIER_ section
DEFAULTS ==
    [ cpu_upper_threshold |-> 80, cpu_lower_threshold |-> 20,
      memory_upper_threshold |-> 80, memory_lower_threshold |-> 20,
      min_cores |-> 1, max_cores |-> 4, min_memory |-> 512,
      core_min_increment |-> 1, core_max_increment |-> 2,
      memory_min_increment |-> 256, min_decrease_chunk |-> 128 ]

\* system-wide knobs of DEFAULTS
RESERVE_CPU_PERCENT == 10
RESERVE_MEMORY_MB == 2048
OFF_PEAK_START == 22
OFF_PEAK_END == 6
POLL_INTERVAL == 300

\* --------------------------------------------------- configuration document
\* containers that `pct list` shows before any clone exists
BaseContainers == {101, 102}
\* one TIER_ section naming container 102
TierSection ==
    [ cpu_upper_threshold |-> 70, cpu_lower_threshold |-> 30,
      memory_upper_threshold |-> 75, memory_lower_threshold |-> 25,
      min_cores |-> 2, max_cores |-> 4, min_memory |-> 512,
      core_min_increment |-> 1, core_max_increment |-> 2,
      memory_min_increment |-> 128, min_decrease_chunk |-> 64,
      tier_name |-> "web" ]
LXC_TIER_ASSOCIATIONS == [c \in {102} |-> TierSection]
\* one HORIZONTAL_SCALING_GROUP_ section
GroupConfig ==
    [ base_snapshot_name |-> 101, starting_clone_id |-> 200, max_instances |-> 4,
      horiz_cpu_upper_threshold |-> 80, horiz_memory_upper_threshold |-> 80,
      horiz_cpu_lower_threshold |-> 20, horiz_memory_lower_threshold |-> 20,
      scale_out_grace_period |-> DEFAULT_SCALE_OUT_GRACE,
      scale_in_grace_period |-> DEFAULT_SCALE_IN_GRACE,
      min_containers |-> 1, clone_network_type |-> "dhcp",
      static_ip_range |-> << [py |-> "str", v |-> 1], [py |-> "str", v |-> 2],
                             [py |-> "str", v |-> 3] >> ]
InitialGroupMembers == {101, 102}
\* ids a scale-out of the group can create
CloneIds == GroupConfig.starting_clone_id ..
            (GroupConfig.starting_clone_id + GroupConfig.max_instances)
\* ignore_lxc: the clones are left out of vertical scaling
IGNORE_LXC == CloneIds

Behaviours == {"conservative", "normal", "aggressive"}

\* ------------------------------------------------------------- environment
\* what nproc and free -m report
HostChoices == { [cores |-> 2, memory |-> 4096], [cores |-> 4, memory |-> 8192] }
\* (cpu_pct, mem_pct) pairs a probe may measure
Samples == { [cpu |-> 95, mem |-> 90], [cpu |-> 50, mem |-> 50],
             [cpu |-> 18, mem |-> 10] }
\* hours of the day the ticks may fall in
Hours == {2, 12}
\* time a command may take: none, or all of its timeout
Durations(timeout) == {0, timeout}
\* stdout of a finished command; "fail" is run_command returning None
Outputs == {"fail", "empty", "text"}

NoBackup == [cores |-> 0, memory |-> 0]
NoTime == -1

\* ------------------------------------------------------------------ helpers
Min(a, b) == IF a <= b THEN a ELSE b
Max(a, b) == IF a >= b THEN a ELSE b
\* Python int(a / b) for b > 0: truncation toward zero
Trunc(a, b) == IF a >= 0 THEN a \div b ELSE -((-a) \div b)
Last(s) == s[Len(s)]

\* LXC_TIER_ASSOCIATIONS as config.py loaded it from the TIER_ sections
VARIABLE tiers

\* DEFAULTS['off_peak_start'] and DEFAULTS['off_peak_end'] as config.py loaded
\* them
VARIABLES off_peak_start, off_peak_end

\* -------------------------------------------------------- tier resolution
\* LXC_TIER_ASSOCIATIONS.get(str(ctid), DEFAULTS)
TierIn(associations, ctid) ==
    IF ctid \in DOMAIN associations THEN associations[ctid] ELSE DEFAULTS

\* load_tier_configurations: a field the TIER_ section leaves out is taken
\* from DEFAULTS, and the name of the section is kept
load_tier_configurations(sections) ==
    [c \in DOMAIN sections |->
        [f \in DOMAIN DEFAULTS \cup {"tier_name"} |->
            IF f \in DOMAIN sections[c] THEN sections[c][f] ELSE DEFAULTS[f]]]

\* the tier of a container under the loaded configuration
TierOf(ctid) == TierIn(tiers, ctid)

\* cores and memory the containers may have when the daemon first sees them
InitCores == [c \in BaseContainers |-> IF c = 101 THEN {2, 6} ELSE {2, 4}]
InitMemory == [c \in BaseContainers |-> IF c = 101 THEN {600} ELSE {512, 4096}]
\* the same on a saturated host: every container at its tier's minimum
MinCores == [c \in BaseContainers |-> {TierIn(LXC_TIER_ASSOCIATIONS, c).min_cores}]
MinMemory == [c \in BaseContainers |-> {TierIn(LXC_TIER_ASSOCIATIONS, c).min_memory}]

is_ignored(ctid) == ctid \in IGNORE_LXC

\* the (min, max) range validate_tier_settings demands of each required field;
\* a max of -1 stands for None
RequiredFields ==
    [ cpu_upper_threshold |-> <<0, 100>>, cpu_lower_threshold |-> <<0, 100>>,
      memory_upper_threshold |-> <<0, 100>>, memory_lower_threshold |-> <<0, 100>>,
      min_cores |-> <<1, -1>>, max_cores |-> <<1, -1>>,
      min_memory |-> <<MIN_MEMORY_FLOOR, -1>> ]

validate_tier_settings(config) ==
    /\ \A f \in DOMAIN RequiredFields :
          /\ f \in DOMAIN config
          /\ config[f] >= RequiredFields[f][1]
          /\ (RequiredFields[f][2] # -1 => config[f] <= RequiredFields[f][2])
    /\ config.cpu_lower_threshold < config.cpu_upper_threshold
    /\ config.memory_lower_threshold < config.memory_upper_threshold
    /\ config.min_cores <= config.max_cores

\* all([cpu_upper, cpu_lower, mem_upper, mem_lower, min_cores, max_cores, min_memory])
AllTruthy(config) ==
    \A f \in DOMAIN RequiredFields : config[f] # 0

\* ----------------------------------------------------------- time of day
is_off_peak(current_hour) ==
    LET start == off_peak_start
        end == off_peak_end
    IN IF start < end
       THEN start <= current_hour /\ current_hour < end
       ELSE current_hour >= start \/ current_hour < end

\* is_off_peak of lxc_autoscale.py, which reads the same two settings
lxc_autoscale_is_off_peak(args_energy_mode, current_hour) ==
    IF args_energy_mode
    THEN off_peak_start <= current_hour \/ current_hour < off_peak_end
    ELSE FALSE

\* the multiplier in tenths: 0.5 | 1.0 | 2.0, times 0.8 in the late hours
get_behaviour_multiplier_x10(behaviour, current_hour) ==
    LET base == IF behaviour = "conservative" THEN 5
                ELSE IF behaviour = "aggressive" THEN 20 ELSE 10
    IN IF current_hour >= off_peak_start \/ current_hour < off_peak_end
       THEN (base * 8) \div 10 ELSE base

\* int(x * multiplier)
Scaled(x, mult_x10) == Trunc(x * mult_x10, 10)

\* ------------------------------------------------------- scaling amounts
calculate_increment(current, upper_threshold, min_increment, max_increment) ==
    LET proportional_increment == Trunc(current - upper_threshold, CPU_SCALE_DIVISOR)
    IN Min(Max(min_increment, proportional_increment), max_increment)

calculate_decrement(current, lower_threshold, current_allocated, min_decrement, min_allocated) ==
    LET dynamic_decrement ==
            Max(1, Trunc(lower_threshold - current, CPU_SCALE_DIVISOR))
    IN Max(Min(current_allocated - min_allocated, dynamic_decrement), min_decrement)

\* ---------------------------------------------------------- host totals
\* get_total_cores: nproc less the reserve
get_total_cores(nproc) ==
    nproc - Max(1, Trunc(nproc * RESERVE_CPU_PERCENT, 100))

\* get_total_memory: free -m less the reserve, not below zero
get_total_memory(free_m) == Max(0, free_m - RESERVE_MEMORY_MB)

\* the pool adjust_resources starts a tick with
InitialAvailableCores(nproc) ==
    LET total_cores == get_total_cores(nproc)
        reserved_cores == Max(1, Trunc(total_cores * RESERVE_CPU_PERCENT, 100))
    IN total_cores - reserved_cores

InitialAvailableMemory(free_m) == get_total_memory(free_m) - RESERVE_MEMORY_MB

\* ------------------------------------------------------- vertical scaler
\* a `pct set` command and a record of the JSON event log
SetCores(ctid, n) == [op |-> "set_cores", ct |-> ctid, val |-> n]
SetMemory(ctid, n) == [op |-> "set_memory", ct |-> ctid, val |-> n]
Event(ctid, action, change) == [ct |-> ctid, action |-> action, change |-> change]

\* the same test with the tier's ceiling forgotten
CanIncreaseCoresNoCeiling(available_cores, increment, new_cores, max_cores) ==
    available_cores >= increment

\* the same test with the pool forgotten
CanIncreaseCoresNoPool(available_cores, increment, new_cores, max_cores) ==
    new_cores <= max_cores

\* the test that lets a core increase go ahead
CanIncreaseCores(available_cores, increment, new_cores, max_cores) ==
    available_cores >= increment /\ new_cores <= max_cores

\* the elif that opens the core decrease
DecreaseCoresBranch(increase_branch, cpu_usage, cpu_lower, current_cores, min_cores) ==
    ~increase_branch /\ cpu_usage < cpu_lower /\ current_cores > min_cores

\* the CPU part of the loop body of adjust_resources: the commands issued, the
\* records emitted, the pool left, and what was taken from and given to it
AdjustCores(ctid, usage, config, available_cores) ==
    LET cpu_usage == usage.cpu
        current_cores == usage.initial_cores
        min_cores == config.min_cores
        max_cores == config.max_cores
        increase_branch == cpu_usage > config.cpu_upper_threshold
        increment == calculate_increment(cpu_usage, config.cpu_upper_threshold,
                         config.core_min_increment, config.core_max_increment)
        new_up == current_cores + increment
        increased == increase_branch
                     /\ CanIncreaseCores(available_cores, increment, new_up, max_cores)
        decrease_branch == DecreaseCoresBranch(increase_branch, cpu_usage,
                               config.cpu_lower_threshold, current_cores, min_cores)
        decrement == calculate_decrement(cpu_usage, config.cpu_lower_threshold,
                         current_cores, config.core_min_increment, min_cores)
        new_down == Max(min_cores, current_cores - decrement)
        decreased == decrease_branch /\ new_down >= min_cores
        taken == IF increased THEN increment ELSE 0
        given == IF decreased THEN current_cores - new_down ELSE 0
    IN [ cmds |-> (IF increased THEN <<SetCores(ctid, new_up)>> ELSE <<>>)
                  \o (IF decreased THEN <<SetCores(ctid, new_down)>> ELSE <<>>),
         events |-> (IF increased THEN <<Event(ctid, "Increase Cores", increment)>>
                     ELSE <<>>)
                    \o (IF decreased
                        THEN <<Event(ctid, "Decrease Cores", decrement)>> ELSE <<>>),
         available |-> available_cores - taken + given,
         taken |-> taken, given |-> given ]

\* a memory decrease that opens whenever the container is above its minimum
DecreaseMemoryBranchAlways(increase_branch, mem_usage, mem_lower, current_memory, min_memory) ==
    current_memory > min_memory

\* the elif that opens the memory decrease
DecreaseMemoryBranch(increase_branch, mem_usage, mem_lower, current_memory, min_memory) ==
    ~increase_branch /\ mem_usage < mem_lower /\ current_memory > min_memory

scale_memory(ctid, mem_usage, mem_upper, mem_lower, current_memory, min_memory, available_memory, config, behaviour_multiplier) ==
    LET increase_branch == mem_usage > mem_upper
        increment ==
            Max(Scaled(config.memory_min_increment, behaviour_multiplier),
                Trunc((mem_usage - mem_upper) * config.memory_min_increment * 10,
                      MEMORY_SCALE_FACTOR_X10))
        increased == increase_branch /\ available_memory >= increment
        decrease_branch == DecreaseMemoryBranch(increase_branch, mem_usage, mem_lower,
                                                current_memory, min_memory)
        decrease_amount ==
            calculate_decrement(mem_usage, mem_lower, current_memory,
                Scaled(config.min_decrease_chunk, behaviour_multiplier), min_memory)
        decreased == decrease_branch /\ decrease_amount > 0
        taken == IF increased THEN increment ELSE 0
        given == IF decreased THEN decrease_amount ELSE 0
    IN [ cmds |-> (IF increased THEN <<SetMemory(ctid, current_memory + increment)>>
                   ELSE <<>>)
                  \o (IF decreased
                      THEN <<SetMemory(ctid, current_memory - decrease_amount)>>
                      ELSE <<>>),
         events |-> (IF increased THEN <<Event(ctid, "Increase Memory", increment)>>
                     ELSE <<>>)
                    \o (IF decreased
                        THEN <<Event(ctid, "Decrease Memory", decrease_amount)>>
                        ELSE <<>>),
         available |-> available_memory - taken + given,
         taken |-> taken, given |-> given ]

\* the energy-efficiency block that ends the loop body
OffPeakClamp(ctid, energy_mode, current_hour, current_cores, current_memory, min_cores, min_memory) ==
    LET active == energy_mode /\ is_off_peak(current_hour)
        clamp_cores == active /\ current_cores > min_cores
        clamp_memory == active /\ current_memory > min_memory
    IN [ cmds |-> (IF clamp_cores THEN <<SetCores(ctid, min_cores)>> ELSE <<>>)
                  \o (IF clamp_memory THEN <<SetMemory(ctid, min_memory)>> ELSE <<>>),
         events |-> (IF clamp_cores
                     THEN <<Event(ctid, "Reduce Cores (Off-Peak)",
                                  current_cores - min_cores)>> ELSE <<>>)
                    \o (IF clamp_memory
                        THEN <<Event(ctid, "Reduce Memory (Off-Peak)",
                                     current_memory - min_memory)>> ELSE <<>>),
         given_cores |-> IF clamp_cores THEN current_cores - min_cores ELSE 0,
         given_memory |-> IF clamp_memory THEN current_memory - min_memory ELSE 0 ]

NoLedger == [cores |-> 0, memory |-> 0]

\* one pass of the loop body of adjust_resources for the container of `usage`
AdjustOne(usage, energy_mode, behaviour, current_hour, available_cores, available_memory) ==
    LET ctid == usage.ct
        config == TierOf(ctid)
        skipped == \/ is_ignored(ctid)
                   \/ ~validate_tier_settings(config)
                   \/ ~AllTruthy(config)
        cpu == AdjustCores(ctid, usage, config, available_cores)
        mem == scale_memory(ctid, usage.mem, config.memory_upper_threshold,
                   config.memory_lower_threshold, usage.initial_memory,
                   config.min_memory, available_memory, config,
                   get_behaviour_multiplier_x10(behaviour, current_hour))
        clamp == OffPeakClamp(ctid, energy_mode, current_hour, usage.initial_cores,
                     usage.initial_memory, config.min_cores, config.min_memory)
    IN IF skipped
       THEN [ cmds |-> <<>>, events |-> <<>>,
              available_cores |-> available_cores,
              available_memory |-> available_memory,
              taken |-> NoLedger, given |-> NoLedger ]
       ELSE [ cmds |-> cpu.cmds \o mem.cmds \o clamp.cmds,
              events |-> cpu.events \o mem.events \o clamp.events,
              available_cores |-> cpu.available + clamp.given_cores,
              available_memory |-> mem.available + clamp.given_memory,
              taken |-> [cores |-> cpu.taken, memory |-> mem.taken],
              given |-> [cores |-> cpu.given + clamp.given_cores,
                         memory |-> mem.given + clamp.given_memory] ]

\* ----------------------------------------------------- horizontal scaler
\* container_id of the records written for the group
GroupCt == 0

\* sum(containers[ctid][field] for ctid in group_lxc), over the members' samples
RECURSIVE SumField(_, _)
SumField(members, field) ==
    IF members = {} THEN 0
    ELSE LET u == CHOOSE x \in members : TRUE
         IN u[field] + SumField(members \ {u}, field)

\* calculate_group_metrics, the averages kept as totals over the member count
calculate_group_metrics(group_lxc, samples) ==
    LET members == {u \in samples : u.ct \in group_lxc}
    IN [ total_cpu |-> SumField(members, "cpu"),
         total_mem |-> SumField(members, "mem"),
         total_containers |-> Cardinality(group_lxc) ]

should_scale_out(metrics, group_config, current_time, last_action_time) ==
    IF current_time - last_action_time < group_config.scale_out_grace_period
    THEN FALSE
    ELSE \/ metrics.total_cpu >
              group_config.horiz_cpu_upper_threshold * metrics.total_containers
         \/ metrics.total_mem >
              group_config.horiz_memory_upper_threshold * metrics.total_containers

should_scale_in(metrics, group_config, current_time, last_action_time) ==
    IF current_time - last_action_time < group_config.scale_in_grace_period
    THEN FALSE
    ELSE /\ metrics.total_cpu <
              group_config.horiz_cpu_lower_threshold * metrics.total_containers
         /\ metrics.total_mem <
              group_config.horiz_memory_lower_threshold * metrics.total_containers
         /\ metrics.total_containers > group_config.min_containers

\* run_command's result counts as success only when it is a non-empty string
Truthy(output) == output = "text"

\* how the snapshot, clone and start commands of one scale-out may go
ScaleOutRuns ==
    { [snapshot |-> o, snapshot_time |-> d, clone |-> "none", clone_time |-> 0, start |-> "none"] :
        o \in {"fail", "empty"}, d \in Durations(TIMEOUT_DEFAULT) }
    \cup
    { [snapshot |-> "text", snapshot_time |-> d1, clone |-> o, clone_time |-> d2, start |-> "none"] :
        d1 \in Durations(TIMEOUT_DEFAULT), o \in {"fail", "empty"},
        d2 \in Durations(TIMEOUT_EXTENDED) }
    \cup
    { [snapshot |-> "text", snapshot_time |-> d1, clone |-> "text", clone_time |-> d2, start |-> o] :
        d1 \in Durations(TIMEOUT_DEFAULT), d2 \in Durations(TIMEOUT_EXTENDED),
        o \in {"fail", "text"} }
NoRun == [snapshot |-> "none", snapshot_time |-> 0, clone |-> "none", clone_time |-> 0, start |-> "none"]

\* a command of the horizontal scaler; it is carried out unless run_command
\* returns None
GroupCmd(op, ctid, output) == [op |-> op, ct |-> ctid, val |-> 0, ok |-> output # "fail"]

\* the first clone id handed out again and again
NextCloneIdFixed(current_instances, starting_clone_id) == starting_clone_id

\* the next available clone id
NextCloneId(current_instances, starting_clone_id) ==
    starting_clone_id + Cardinality({ctid \in current_instances : ctid >= starting_clone_id})

\* a hostname that leaves the clone number out
generate_cloned_hostname_unnumbered(base_name, clone_number) ==
    << base_name, "-cloned-", 1 >>

\* generate_cloned_hostname: f"{base_name}-cloned-{clone_number}", as its pieces
generate_cloned_hostname(base_name, clone_number) ==
    << base_name, "-cloned-", clone_number >>

\* the pct clone command of a scale-out, with the hostname it passes
CloneCmd(ctid, clone_hostname, output) ==
    [op |-> "clone", ct |-> ctid, val |-> 0, ok |-> output # "fail", hostname |-> clone_hostname]

\* a Python int, which is what the members of current_instances are
PyInt(n) == [py |-> "int", v |-> n]
\* ip=dhcp, and no address at all
Dhcp == [py |-> "str", v |-> 0]
NoAddress == [py |-> "none", v |-> 0]

\* the pct set -net0 command of a scale-out, with the address it passes
NetCmd(ctid, ip_address) ==
    [op |-> "net", ct |-> ctid, val |-> 0, ok |-> TRUE, ip |-> ip_address]

\* [ip for ip in static_ip_range if ip not in current_instances]
available_ips(static_ip_range, current_instances) ==
    SelectSeq(static_ip_range, LAMBDA ip : ip \notin {PyInt(ctid) : ctid \in current_instances})

\* the address scale_out configures the clone with
CloneAddress(group_config, current_instances) ==
    IF group_config.clone_network_type = "dhcp" THEN Dhcp
    ELSE IF group_config.clone_network_type = "static"
            /\ available_ips(group_config.static_ip_range, current_instances) # <<>>
    THEN available_ips(group_config.static_ip_range, current_instances)[1]
    ELSE NoAddress

\* a group that is never held to be full
AtMaxInstancesNever(current_instances, max_instances) == FALSE

\* len(current_instances) >= max_instances
AtMaxInstances(current_instances, max_instances) ==
    Cardinality(current_instances) >= max_instances

\* scale_out: the membership, the clones on the host, the commands issued, the
\* time spent, the time of the record, and the record
scale_out(members, existing, group_config, run, started_at) ==
    LET at_max == AtMaxInstances(members, group_config.max_instances)
        new_ctid == NextCloneId(members, group_config.starting_clone_id)
        base_snapshot == group_config.base_snapshot_name
        clone_hostname == generate_cloned_hostname(base_snapshot, Cardinality(members) + 1)
        clone_output == IF new_ctid \in existing THEN "fail" ELSE run.clone
        snapshotted == ~at_max /\ Truthy(run.snapshot)
        cloned == snapshotted /\ Truthy(clone_output)
        elapsed == IF at_max THEN 0 ELSE run.snapshot_time + run.clone_time
        ip_address == CloneAddress(group_config, members)
    IN [ members |-> IF cloned THEN members \cup {new_ctid} ELSE members,
         new_ctid |-> new_ctid,
         ip_address |-> ip_address,
         existing |-> IF snapshotted /\ clone_output # "fail"
                      THEN existing \cup {new_ctid} ELSE existing,
         cmds |-> (IF at_max THEN <<>>
                   ELSE <<GroupCmd("snapshot", base_snapshot, run.snapshot)>>)
                  \o (IF snapshotted
                      THEN <<CloneCmd(new_ctid, clone_hostname, clone_output)>> ELSE <<>>)
                  \o (IF cloned /\ ip_address # NoAddress
                      THEN <<NetCmd(new_ctid, ip_address)>> ELSE <<>>)
                  \o (IF cloned
                      THEN <<GroupCmd("start", new_ctid, run.start)>> ELSE <<>>),
         elapsed |-> elapsed,
         cloned |-> cloned,
         last_action |-> started_at + elapsed,
         events |-> IF cloned THEN <<Event(new_ctid, "Scale Out", new_ctid)>>
                    ELSE <<>> ]

\* -------------------------------------------------------------------- state
VARIABLES
    pc,                 \* per daemon process: start | main_loop | rollback | exited
    exit_code,          \* per daemon process: its exit code, NoCode while it runs
    lock_holders,       \* processes holding the lock on LOCK_FILE
    worked,             \* processes that ran a tick or a rollback or wrote a record
    phase,              \* main_loop: idle | probing | adjusting | sleeping | failed
    tick,               \* ticks started so far
    now,                \* the clock, in seconds
    loop_start_time,
    current_hour,       \* datetime.now().hour during the tick
    host,               \* what nproc and free -m report
    energy_mode,        \* --energy-mode
    behaviour,          \* DEFAULTS['behaviour']
    group_configured,   \* whether the configuration holds the horizontal group
    cores, memory,      \* the cores and memory each container is set to
    clones,             \* clone ids that exist on the host
    backup,             \* the content of the backup file of each container
    save,               \* backup_container_settings: where a save stands
    ssh_client,         \* the global ssh_client of lxc_utils, NoSession for None
    sessions,           \* per SSH session: unused | open | broken | failed
    threads,            \* the main thread and the probe workers, in run_command
    net0,               \* the address each clone was configured with
    not_running,        \* containers the probes of the tick found not running
    clone_network_type, \* group_config['clone_network_type']
    pending,            \* probes submitted and not yet completed
    containers,         \* the samples, in the order the probes completed
    idx,                \* adjust_resources: samples already handled
    available_cores, available_memory,
    cmds,               \* commands issued in the current tick, with their outcome
    events,             \* records appended to the JSON log in the current tick
    granted, released,  \* what the tick took from and gave back to the pool
    lxc_containers,     \* group_config['lxc_containers'] of the running daemon
    scale_last_action,  \* scale_last_action[group], NoTime when unset
    scale_out_times,    \* when the running daemon wrote its Scale Out records
    last_done           \* what was done last: nothing | tick | failed_tick | signal |
                        \* rollback | rollback_twice | failed_rollback

vars == << pc, exit_code, lock_holders, worked, phase, tick, now, loop_start_time,
           current_hour, host, energy_mode, behaviour, group_configured, cores, memory,
           clones, backup,
           pending, containers, idx, available_cores, available_memory, cmds, events,
           granted, released, lxc_containers, scale_last_action, scale_out_times,
           tiers, off_peak_start, off_peak_end, last_done, save,
           ssh_client, sessions, threads, net0, clone_network_type, not_running >>

procVars == << pc, exit_code, lock_holders, worked >>
sshVars == << ssh_client, sessions, threads >>
configVars == << host, energy_mode, behaviour, group_configured, tiers,
                off_peak_start, off_peak_end, clone_network_type >>
hostVars == << cores, memory, clones, backup >>
tickVars == << pending, containers, idx, available_cores, available_memory >>
logVars == << cmds, events, granted, released >>
groupVars == << lxc_containers, scale_last_action, scale_out_times >>

NoCode == -1
Daemons == DOMAIN pc

\* ---------------------------------------------------------- the backup file
\* the content of a path at which no file exists
NoFile == <<[t |-> "absent", n |-> 0]>>

\* json.dump(settings, f): the pieces of text written to the file, in order
json_dump(settings) ==
    << [t |-> "{", n |-> 0], [t |-> "cores", n |-> settings.cores],
       [t |-> "memory", n |-> settings.memory], [t |-> "}", n |-> 0] >>

\* the content is one complete JSON object, so that json.load does not raise
Decodable(content) ==
    /\ Len(content) = 4
    /\ content[1].t = "{" /\ content[2].t = "cores"
    /\ content[3].t = "memory" /\ content[4].t = "}"

\* json.load(f) of a content that decodes
json_load(content) == [cores |-> content[2].n, memory |-> content[3].n]

\* ------------------------------------------------------ the remote back-end
\* ssh_client is None
NoSession == 0
SessionIds == 1 .. MaxSessions
\* the main thread of the daemon and the workers of the ThreadPoolExecutor
MainThread == 0
Workers == 1 .. MaxWorkers
\* a thread outside run_command
Resting(where) == [pc |-> where, ssh |-> NoSession, result |-> "none"]
ThreadsAtStart == [t \in {MainThread} \cup Workers |-> IF t = MainThread THEN Resting("idle") ELSE Resting("unspawned")]

\* no save under way
NotSaving == [pc |-> "idle", ct |-> 0, settings |-> NoBackup, previous |-> NoFile]

\* ------------------------------------------------------------ initial states
\* the off-peak window of the configuration as shipped
ShippedWindow == {[off_peak_start |-> OFF_PEAK_START, off_peak_end |-> OFF_PEAK_END]}

\* the clones on the host when the daemon starts: none, or those of an earlier run
NoClones == {{}}
LeftClones == {{GroupConfig.starting_clone_id}}

\* the state when the first daemon process is launched, for a set of processes,
\* a configuration and a host
InitConfigured(processes, grouped, hosts, modes, behaviours, core_sets, memory_sets, tier_sets, backup_sets, windows, networks, clone_sets) ==
    /\ pc = [p \in processes |-> "start"]
    /\ exit_code = [p \in processes |-> NoCode]
    /\ lock_holders = {}
    /\ worked = {}
    /\ phase = "idle"
    /\ tick = 0
    /\ now = 0
    /\ loop_start_time = 0
    /\ current_hour = 12
    /\ host \in hosts
    /\ energy_mode \in modes
    /\ behaviour \in behaviours
    /\ group_configured = grouped
    /\ tiers \in tier_sets
    /\ cores \in [BaseContainers -> UNION {core_sets[c] : c \in BaseContainers}]
    /\ \A c \in BaseContainers : cores[c] \in core_sets[c]
    /\ memory \in [BaseContainers -> UNION {memory_sets[c] : c \in BaseContainers}]
    /\ \A c \in BaseContainers : memory[c] \in memory_sets[c]
    /\ clones \in clone_sets
    /\ backup \in [BaseContainers -> UNION {backup_sets[c] : c \in BaseContainers}]
    /\ \A c \in BaseContainers : backup[c] \in backup_sets[c]
    /\ pending = {}
    /\ containers = <<>>
    /\ idx = 0
    /\ available_cores = 0
    /\ available_memory = 0
    /\ cmds = <<>>
    /\ events = <<>>
    /\ granted = NoLedger
    /\ released = NoLedger
    /\ lxc_containers = InitialGroupMembers
    /\ scale_last_action = NoTime
    /\ scale_out_times = <<>>
    /\ last_done = "nothing"
    /\ save = NotSaving
    /\ net0 = [c \in CloneIds |-> NoAddress]
    /\ not_running = {}
    /\ clone_network_type \in networks
    /\ ssh_client = NoSession
    /\ sessions = [s \in SessionIds |-> "unused"]
    /\ threads = ThreadsAtStart
    /\ \E w \in windows : /\ off_peak_start = w.off_peak_start
                          /\ off_peak_end = w.off_peak_end

\* the same with the off-peak window as shipped
InitWith(processes, grouped, hosts, modes, behaviours, core_sets, memory_sets, tier_sets, backup_sets) ==
    InitConfigured(processes, grouped, hosts, modes, behaviours, core_sets, memory_sets, tier_sets, backup_sets, ShippedWindow, {GroupConfig.clone_network_type}, NoClones)

\* the configuration as shipped, and a host on which no backup file exists
ShippedTiers == {load_tier_configurations(LXC_TIER_ASSOCIATIONS)}
NoBackups == [c \in BaseContainers |-> {NoFile}]

\* one daemon, no horizontal group, any host and any setting of the containers
Init == InitWith({1}, FALSE, HostChoices, BOOLEAN, {"normal"}, InitCores, InitMemory, ShippedTiers, NoBackups)

\* one daemon and the horizontal group, on a host with nothing left to hand out
SaturatedHost == {h \in HostChoices : InitialAvailableCores(h.cores) <= 0}
InitGroup == InitWith({1}, TRUE, SaturatedHost, BOOLEAN, {"normal"}, MinCores, MinMemory, ShippedTiers, NoBackups)

\* one daemon, no horizontal group, started on a host where an earlier run of
\* the daemon left a clone, which pct list shows and ignore_lxc names
InitIgnored == InitConfigured({1}, FALSE, HostChoices, {FALSE}, {"normal"}, InitCores, InitMemory, ShippedTiers, NoBackups, ShippedWindow, {GroupConfig.clone_network_type}, LeftClones)

\* the same group with clone_network_type static
InitStatic == InitConfigured({1}, TRUE, SaturatedHost, BOOLEAN, {"normal"}, MinCores, MinMemory, ShippedTiers, NoBackups, ShippedWindow, {"static"}, NoClones)

\* several daemon processes launched against one lock file, container 101
\* grown since its backup file was written
GrownCores == [c \in BaseContainers |-> IF c = 101 THEN {6} ELSE {2}]
GrownMemory == [c \in BaseContainers |-> IF c = 101 THEN {4096} ELSE {512}]
OneBackup == [c \in BaseContainers |-> IF c = 101 THEN {json_dump([cores |-> 2, memory |-> 2048])} ELSE {NoFile}]
InitDaemons == InitWith(1 .. MaxDaemons, FALSE, SaturatedHost, {FALSE}, {"normal"}, GrownCores, GrownMemory, ShippedTiers, OneBackup)

\* TIER_ sections for container 102 that break a rule of the tier contract:
\* thresholds the wrong way round, a minimum above the maximum, a memory
\* floor below 128 MB, a section without min_memory, increments the wrong
\* way round
BrokenSections ==
    { [TierSection EXCEPT !.cpu_lower_threshold = 90, !.tier_name = "inverted"],
      [TierSection EXCEPT !.min_cores = 5, !.tier_name = "min_above_max"],
      [TierSection EXCEPT !.min_memory = 64, !.tier_name = "low_floor"],
      [f \in DOMAIN TierSection \ {"min_memory"} |->
          IF f = "tier_name" THEN "no_floor" ELSE TierSection[f]],
      [TierSection EXCEPT !.core_min_increment = 3, !.tier_name = "increments"] }
BrokenTiers == {load_tier_configurations([c \in {102} |-> section]) : section \in BrokenSections}

\* one daemon, no horizontal group, container 102 under a broken TIER_ section
InitTiers == InitWith({1}, FALSE, HostChoices \ SaturatedHost, {FALSE}, {"normal"}, InitCores, MinMemory, BrokenTiers, NoBackups)

\* TIER_ sections that keep every rule of the tier contract: one that steps a
\* core at a time from a low upper threshold, one that steps two cores at a
\* time, one whose lower thresholds are zero
TunedSections ==
    { [TierSection EXCEPT !.cpu_upper_threshold = 45, !.core_max_increment = 1, !.tier_name = "single"],
      [TierSection EXCEPT !.core_min_increment = 2, !.tier_name = "coarse"],
      [TierSection EXCEPT !.cpu_lower_threshold = 0, !.memory_lower_threshold = 0, !.tier_name = "zero_lower"] }
\* both containers under one of these sections, or the configuration as shipped
TunedTiers == ShippedTiers \cup {load_tier_configurations([c \in BaseContainers |-> section]) : section \in TunedSections}

\* a host with three or four cores, the containers with room to shrink and to grow
TunedHosts == { [cores |-> 3, memory |-> 8192], [cores |-> 4, memory |-> 8192] }
TunedCores == [c \in BaseContainers |-> IF c = 101 THEN {1, 3} ELSE {2, 3}]

\* one daemon, no horizontal group, the containers under valid tiers
InitTuned == InitWith({1}, FALSE, TunedHosts, {FALSE}, {"normal"}, TunedCores, MinMemory, TunedTiers, NoBackups)

\* one daemon under every behaviour, with energy mode on or off, and the
\* off-peak window as shipped (it wraps midnight) or inside one day
OffPeakWindows == ShippedWindow \cup {[off_peak_start |-> 1, off_peak_end |-> 5]}
InitWindows == InitConfigured({1}, FALSE, HostChoices \ SaturatedHost, BOOLEAN, Behaviours, MinCores, InitMemory, ShippedTiers, NoBackups, OffPeakWindows, {GroupConfig.clone_network_type}, NoClones)

\* ------------------------------------------------------- process lifecycle
\* a lock that is granted whoever holds it
LockAlwaysGranted(holders) == TRUE

\* fcntl.lockf(LOCK_EX | LOCK_NB) succeeds when no other process holds the lock
LockGranted(holders) == holders = {}

\* what a process loses when it exits: its tick, its group table, its lock
ProcessGone(p) ==
    /\ lock_holders' = lock_holders \ {p}
    /\ phase' = "idle"
    /\ pending' = {}
    /\ containers' = <<>>
    /\ idx' = 0
    /\ available_cores' = 0
    /\ available_memory' = 0
    /\ lxc_containers' = InitialGroupMembers
    /\ scale_last_action' = NoTime
    /\ scale_out_times' = <<>>
    /\ granted' = NoLedger
    /\ released' = NoLedger
    /\ not_running' = {}

\* __main__: acquire_lock, then the rollback or the main loop
Launch(p, rollback) ==
    /\ pc[p] = "start"
    /\ IF LockGranted(lock_holders)
       THEN /\ lock_holders' = lock_holders \cup {p}
            /\ pc' = [pc EXCEPT ![p] = IF rollback THEN "rollback" ELSE "main_loop"]
            /\ UNCHANGED exit_code
       ELSE /\ pc' = [pc EXCEPT ![p] = "exited"]
            /\ exit_code' = [exit_code EXCEPT ![p] = 1]
            /\ UNCHANGED lock_holders
    /\ UNCHANGED << worked, phase, tick, now, loop_start_time, current_hour >>
    /\ UNCHANGED << configVars, hostVars, tickVars, logVars, groupVars, last_done >>
    /\ UNCHANGED << save, sshVars, net0, not_running >>

\* the value a container's setting has after the commands `done`, which took
\* effect only when the executor ran them
LastSet(done, op, before) ==
    LET hits == SelectSeq(done, LAMBDA c : c.op = op /\ c.ok)
    IN IF hits = <<>> THEN before ELSE Last(hits).val

\* the members of a set of container ids in ascending order, as pct list shows them
RECURSIVE Ascending(_)
Ascending(ids) ==
    IF ids = {} THEN <<>>
    ELSE LET first == CHOOSE c \in ids : \A d \in ids : c <= d
         IN <<first>> \o Ascending(ids \ {first})

\* load_backup_settings: the record of the backup file; None, which NoBackup
\* stands for, when there is no file or json.load raises
load_backup_settings(ctid) ==
    IF backup[ctid] # NoFile /\ Decodable(backup[ctid])
    THEN json_load(backup[ctid]) ELSE NoBackup

\* rollback_container_settings: the two commands, when a backup was loaded
rollback_container_settings(ctid) ==
    LET settings == load_backup_settings(ctid)
    IN IF settings # NoBackup
       THEN << SetCores(ctid, settings.cores), SetMemory(ctid, settings.memory) >>
       ELSE <<>>

\* a rollback that saves the live settings as the new backup
BackupSwappedByRollback(ctid) ==
    IF load_backup_settings(ctid) # NoBackup
    THEN json_dump([cores |-> cores[ctid], memory |-> memory[ctid]]) ELSE backup[ctid]

\* the backup file after rollback_container_settings, which only reads it
BackupAfterRollback(ctid) == backup[ctid]

RECURSIVE RollbackAll(_)
RollbackAll(order) ==
    IF order = <<>> THEN <<>>
    ELSE rollback_container_settings(Head(order)) \o RollbackAll(Tail(order))

\* __main__ with --rollback: rollback_container_settings for every listed
\* container, then the exit; `ok` tells whether the executor carries the
\* commands out
Rollback(p, ok) ==
    /\ pc[p] = "rollback"
    /\ LET issued == RollbackAll(Ascending({c \in BaseContainers : ~is_ignored(c)}))
           done == [i \in 1 .. Len(issued) |->
                       [ op |-> issued[i].op, ct |-> issued[i].ct,
                         val |-> issued[i].val, ok |-> ok ]]
       IN /\ cmds' = done
          /\ cores' = [c \in DOMAIN cores |-> LastSet(SelectSeq(done, LAMBDA d : d.ct = c), "set_cores", cores[c])]
          /\ memory' = [c \in DOMAIN memory |-> LastSet(SelectSeq(done, LAMBDA d : d.ct = c), "set_memory", memory[c])]
    /\ backup' = [c \in DOMAIN backup |->
                      IF is_ignored(c) THEN backup[c] ELSE BackupAfterRollback(c)]
    /\ events' = <<>>
    /\ last_done' = IF ~ok THEN "failed_rollback"
                    ELSE IF last_done \in {"rollback", "rollback_twice"}
                    THEN "rollback_twice" ELSE "rollback"
    /\ worked' = worked \cup {p}
    /\ pc' = [pc EXCEPT ![p] = "exited"]
    /\ exit_code' = [exit_code EXCEPT ![p] = 0]
    /\ ProcessGone(p)
    /\ UNCHANGED << tick, now, loop_start_time, current_hour, configVars, clones >>
    /\ UNCHANGED << save, sshVars, net0 >>

\* handle_signal: SIGINT, SIGTERM or SIGHUP ends the process with code 0
Signal(p) ==
    /\ pc[p] = "main_loop"
    /\ pc' = [pc EXCEPT ![p] = "exited"]
    /\ exit_code' = [exit_code EXCEPT ![p] = 0]
    /\ ProcessGone(p)
    /\ cmds' = <<>>
    /\ events' = <<>>
    /\ last_done' = "signal"
    /\ UNCHANGED << worked, tick, now, loop_start_time, current_hour, configVars,
                    hostVars >>
    /\ UNCHANGED << save, sshVars, net0 >>

\* ---------------------------------------------------------------- the tick
\* pct list: the configured containers and the clones made so far
pct_list == BaseContainers \cup clones

\* get_containers: the listed containers that are not ignored
get_containers == {c \in pct_list : ~is_ignored(c)}

\* ticks the model lets the daemons start
TickBound == IF group_configured THEN MaxGroupTicks ELSE MaxTicks

\* main_loop starts a tick: collect_container_data submits one probe per container
StartTick(p, hour) ==
    /\ pc[p] = "main_loop"
    /\ phase = "idle"
    /\ tick < TickBound
    /\ tick' = tick + 1
    /\ worked' = worked \cup {p}
    /\ phase' = "probing"
    /\ loop_start_time' = now
    /\ current_hour' = hour
    /\ pending' = get_containers
    /\ containers' = <<>>
    /\ not_running' = {}
    /\ idx' = 0
    /\ cmds' = <<>>
    /\ events' = <<>>
    /\ granted' = NoLedger
    /\ released' = NoLedger
    /\ last_done' = "tick"
    /\ available_cores' = 0
    /\ available_memory' = 0
    /\ UNCHANGED << pc, exit_code, lock_holders, now, configVars, hostVars,
                    groupVars >>
    /\ UNCHANGED << save, sshVars, net0 >>

\* collect_data_for_container: no sample (None) of a container that
\* is_container_running finds not running, else its usage and its pct config
collect_data_for_container_unchecked(ctid, running, sample) == << [ ct |-> ctid, cpu |-> sample.cpu, mem |-> sample.mem, initial_cores |-> cores[ctid], initial_memory |-> memory[ctid] ] >>
collect_data_for_container(ctid, running, sample) ==
    IF ~running THEN <<>>
    ELSE << [ ct |-> ctid, cpu |-> sample.cpu, mem |-> sample.mem,
              initial_cores |-> cores[ctid], initial_memory |-> memory[ctid] ] >>

\* collect_data_for_container of one container completes; the container it
\* found not running is recorded in not_running
ProbeDone(p, ctid, running, sample) ==
    /\ pc[p] = "main_loop"
    /\ phase = "probing"
    /\ ctid \in pending
    /\ pending' = pending \ {ctid}
    /\ containers' = containers \o collect_data_for_container(ctid, running, sample)
    /\ not_running' = IF running THEN not_running ELSE not_running \cup {ctid}
    /\ UNCHANGED << procVars, phase, tick, now, loop_start_time, current_hour,
                    configVars, hostVars, idx, available_cores, available_memory,
                    logVars, groupVars, last_done >>
    /\ UNCHANGED << save, sshVars, net0 >>

\* adjust_resources is entered: the pool of the tick
BeginAdjust(p) ==
    /\ pc[p] = "main_loop"
    /\ phase = "probing"
    /\ pending = {}
    /\ phase' = "adjusting"
    /\ available_cores' = InitialAvailableCores(host.cores)
    /\ available_memory' = InitialAvailableMemory(host.memory)
    /\ UNCHANGED << procVars, tick, now, loop_start_time, current_hour, configVars,
                    hostVars, pending, containers, idx, logVars, groupVars, last_done >>
    /\ UNCHANGED << save, sshVars, net0, not_running >>

\* adjust_resources handles the next sample; `ok` tells whether the executor
\* carries out this container's commands, `written` whether log_json_event can
\* append to the log, which fails from the first record of a tick on. The
\* record that cannot be written raises out of adjust_resources, its command
\* already issued.
AdjustNext(p, ok, written) ==
    /\ pc[p] = "main_loop"
    /\ phase = "adjusting"
    /\ idx < Len(containers)
    /\ LET usage == containers[idx + 1]
           step == AdjustOne(usage, energy_mode, behaviour, current_hour,
                             available_cores, available_memory)
           raises == ~written /\ events = <<>> /\ step.events # <<>>
           issued == IF raises THEN <<step.cmds[1]>> ELSE step.cmds
           done == [i \in 1 .. Len(issued) |->
                       [ op |-> issued[i].op, ct |-> issued[i].ct,
                         val |-> issued[i].val, ok |-> ok ]]
       IN /\ cmds' = cmds \o done
          /\ events' = IF raises THEN events ELSE events \o step.events
          /\ available_cores' = IF raises THEN available_cores ELSE step.available_cores
          /\ available_memory' =
                IF raises THEN available_memory ELSE step.available_memory
          /\ granted' = IF raises THEN granted
                        ELSE [ cores |-> granted.cores + step.taken.cores,
                               memory |-> granted.memory + step.taken.memory ]
          /\ released' = IF raises THEN released
                         ELSE [ cores |-> released.cores + step.given.cores,
                                memory |-> released.memory + step.given.memory ]
          /\ cores' = [cores EXCEPT
                          ![usage.ct] = LastSet(done, "set_cores", cores[usage.ct])]
          /\ memory' = [memory EXCEPT
                          ![usage.ct] = LastSet(done, "set_memory", memory[usage.ct])]
          /\ phase' = IF raises THEN "failed" ELSE phase
          /\ last_done' = IF raises THEN "failed_tick" ELSE last_done
    /\ idx' = idx + 1
    /\ UNCHANGED << procVars, tick, now, loop_start_time, current_hour,
                    configVars, clones, backup, pending, containers, groupVars >>
    /\ UNCHANGED << save, sshVars, net0, not_running >>

\* what manage_horizontal_scaling sees of the group when adjust_resources has
\* returned
LastActionTime ==
    IF scale_last_action = NoTime THEN now - NO_ACTION_AGE ELSE scale_last_action
GroupSamples == {containers[i] : i \in 1 .. Len(containers)}
GroupLxc == {c \in lxc_containers : (\E u \in GroupSamples : u.ct = c) /\ ~is_ignored(c)}
GroupActive == group_configured /\ GroupLxc # {}
GroupMetrics == calculate_group_metrics(GroupLxc, GroupSamples)
ScaleOutChosen == GroupActive /\ should_scale_out(GroupMetrics, GroupConfig, now, LastActionTime)
ScaleInChosen == GroupActive /\ ~ScaleOutChosen /\ should_scale_in(GroupMetrics, GroupConfig, now, LastActionTime)

\* manage_horizontal_scaling, adjust_resources having returned: the loop
\* over the configured groups, of which there is one or none. The elif branch
\* calls scale_in, a name the module does not define; the handler of that
\* NameError hands group_config, which holds a set, to json.dumps, and the
\* TypeError leaves the function. A record that cannot be written ends the
\* same way.
ManageHorizontalScaling(p, written) ==
    /\ pc[p] = "main_loop"
    /\ phase = "adjusting"
    /\ idx = Len(containers)
    /\ LET current_time == now
           out == ScaleOutChosen
           in == ScaleInChosen
           unwritten == group_configured /\ ~written
           raises == unwritten \/ in
           runs == IF out /\ ~unwritten THEN ScaleOutRuns ELSE {NoRun}
       IN \E run \in runs :
            LET res == scale_out(lxc_containers, clones, [GroupConfig EXCEPT !.clone_network_type = clone_network_type], run, now)
                acts == out /\ ~unwritten
            IN /\ lxc_containers' = IF acts THEN res.members ELSE lxc_containers
               /\ net0' = IF acts /\ res.cloned /\ res.ip_address # NoAddress
                          THEN [net0 EXCEPT ![res.new_ctid] = res.ip_address]
                          ELSE net0
               /\ clones' = IF acts THEN res.existing ELSE clones
               /\ now' = IF acts THEN now + res.elapsed ELSE now
               /\ scale_last_action' =
                     IF acts THEN current_time ELSE scale_last_action
               /\ scale_out_times' =
                     IF acts /\ res.cloned
                     THEN Append(scale_out_times, res.last_action)
                     ELSE scale_out_times
               /\ cmds' = IF acts THEN cmds \o res.cmds ELSE cmds
               /\ events' =
                     IF unwritten THEN events
                     ELSE events
                          \o (IF ~group_configured THEN <<>>
                              ELSE IF GroupLxc = {}
                              THEN <<Event(GroupCt, "horizontal_scaling_skip", 0)>>
                              ELSE <<Event(GroupCt, "group_metrics",
                                           GroupMetrics.total_containers)>>)
                          \o (IF out THEN res.events ELSE <<>>)
               /\ phase' = IF raises THEN "failed" ELSE "sleeping"
               /\ last_done' = IF raises THEN "failed_tick" ELSE last_done
    /\ UNCHANGED << procVars, tick, loop_start_time, current_hour, configVars, cores,
                    memory, backup, tickVars, granted, released >>
    /\ UNCHANGED << save, sshVars, not_running >>

\* the end of the tick: main_loop sleeps out the rest of the poll interval
Sleep(p) ==
    /\ pc[p] = "main_loop"
    /\ phase = "sleeping"
    /\ now' = IF now - loop_start_time < POLL_INTERVAL
              THEN loop_start_time + POLL_INTERVAL ELSE now
    /\ phase' = "idle"
    /\ UNCHANGED << procVars, tick, loop_start_time, current_hour, configVars,
                    hostVars, tickVars, logVars, groupVars, last_done >>
    /\ UNCHANGED << save, sshVars, net0, not_running >>

\* time.sleep(poll_interval) of the handler of main_loop
ErrorSleep(poll_interval) == poll_interval

\* except Exception in main_loop of resource_manager: the error is logged, the
\* loop sleeps and goes on
SleepAfterError(p) ==
    /\ pc[p] = "main_loop"
    /\ phase = "failed"
    /\ now' = now + ErrorSleep(POLL_INTERVAL)
    /\ phase' = "idle"
    /\ UNCHANGED << procVars, tick, loop_start_time, current_hour, configVars,
                    hostVars, tickVars, logVars, groupVars, last_done >>
    /\ UNCHANGED << save, sshVars, net0, not_running >>

\* except Exception in main_loop of lxc_autoscale.py, the loop __main__ calls:
\* the error is logged and `break` leaves the loop, the process ends
BreakAfterError(p) ==
    /\ pc[p] = "main_loop"
    /\ phase = "failed"
    /\ pc' = [pc EXCEPT ![p] = "exited"]
    /\ exit_code' = [exit_code EXCEPT ![p] = 0]
    /\ ProcessGone(p)
    /\ cmds' = <<>>
    /\ events' = <<>>
    /\ UNCHANGED << worked, tick, now, loop_start_time, current_hour, configVars,
                    hostVars, last_done >>
    /\ UNCHANGED << save, sshVars, net0 >>

Next ==
    \/ \E p \in Daemons, rollback \in BOOLEAN : Launch(p, rollback)
    \/ \E p \in Daemons, ok \in BOOLEAN : Rollback(p, ok)
    \/ \E p \in Daemons : Signal(p)
    \/ \E p \in Daemons, hour \in Hours : StartTick(p, hour)
    \/ \E p \in Daemons, ctid \in BaseContainers, running \in BOOLEAN,
          sample \in Samples : ProbeDone(p, ctid, running, sample)
    \/ \E p \in Daemons : BeginAdjust(p)
    \/ \E p \in Daemons, ok \in BOOLEAN, written \in BOOLEAN : AdjustNext(p, ok, written)
    \/ \E p \in Daemons, written \in BOOLEAN : ManageHorizontalScaling(p, written)
    \/ \E p \in Daemons : Sleep(p)
    \/ \E p \in Daemons : SleepAfterError(p)
    \/ \E p \in Daemons : BreakAfterError(p)

Spec == Init /\ [][Next]_vars
SpecGroup == InitGroup /\ [][Next]_vars
SpecDaemons == InitDaemons /\ [][Next]_vars
SpecTiers == InitTiers /\ [][Next]_vars
SpecTuned == InitTuned /\ [][Next]_vars
SpecWindows == InitWindows /\ [][Next]_vars
SpecStatic == InitStatic /\ [][Next]_vars
SpecIgnored == InitIgnored /\ [][Next]_vars

\* -------------------------------------------------- saving a backup file
\* settings a probe may hand to backup_container_settings
SavedSettings == { [cores |-> c, memory |-> m] : c \in {2, 4}, m \in {512, 2048} }

\* a host on which either container may or may not have a complete backup file
AnyBackup == [c \in BaseContainers |-> {NoFile} \cup {json_dump(r) : r \in SavedSettings}]

\* backup_container_settings: open(backup_file, 'w') leaves an empty file
SaveOpen(ctid, settings) ==
    /\ save.pc \in {"idle", "closed"}
    /\ backup' = [backup EXCEPT ![ctid] = <<>>]
    /\ save' = [ pc |-> "opened", ct |-> ctid, settings |-> settings,
                 previous |-> backup[ctid] ]
    /\ UNCHANGED << procVars, phase, tick, now, loop_start_time, current_hour,
                    configVars, cores, memory, clones, tickVars, logVars, groupVars,
                    last_done, sshVars, net0, not_running >>

\* json.dump: the next piece of text reaches the file
SaveWrite ==
    /\ save.pc = "opened"
    /\ Len(backup[save.ct]) < Len(json_dump(save.settings))
    /\ backup' = [backup EXCEPT ![save.ct] =
                     Append(@, json_dump(save.settings)[Len(@) + 1])]
    /\ UNCHANGED << procVars, phase, tick, now, loop_start_time, current_hour,
                    configVars, cores, memory, clones, tickVars, logVars, groupVars,
                    last_done, save, sshVars, net0, not_running >>

\* the with block is left: the file is closed with all of the text in it
SaveClose ==
    /\ save.pc = "opened"
    /\ backup[save.ct] = json_dump(save.settings)
    /\ save' = [save EXCEPT !.pc = "closed"]
    /\ UNCHANGED << procVars, phase, tick, now, loop_start_time, current_hour,
                    configVars, hostVars, tickVars, logVars, groupVars, last_done,
                    sshVars, net0, not_running >>

\* the process stops while the file is open: it is killed, the host loses
\* power, or handle_signal raises SystemExit, which `except Exception` lets by
SaveStopped ==
    /\ save.pc = "opened"
    /\ save' = [save EXCEPT !.pc = "stopped"]
    /\ UNCHANGED << procVars, phase, tick, now, loop_start_time, current_hour,
                    configVars, hostVars, tickVars, logVars, groupVars, last_done,
                    sshVars, net0, not_running >>

NextBackup ==
    \/ \E ctid \in BaseContainers, settings \in SavedSettings : SaveOpen(ctid, settings)
    \/ SaveWrite
    \/ SaveClose
    \/ SaveStopped

InitBackup == InitWith({1}, FALSE, SaturatedHost, {FALSE}, {"normal"}, MinCores, MinMemory, ShippedTiers, AnyBackup)
SpecBackup == InitBackup /\ [][NextBackup]_vars

\* ------------------------------------------- commands over the SSH session
\* everything but the session and the threads
localVars == << procVars, phase, tick, now, loop_start_time, current_hour, configVars, hostVars, tickVars, logVars, groupVars, last_done, save, net0, not_running >>

\* sessions that are open
OpenSessions == {s \in SessionIds : sessions[s] = "open"}

\* get_containers hands out container ids whatever pct list returned
ContainersListedAlways(result) == TRUE

\* get_containers: `if not containers: return []`
ContainersListed(result) == result = "output"

\* run_remote_command calls get_ssh_client, which tests `ssh_client is None`
GetSshClient(t) ==
    /\ threads[t].pc = "idle"
    /\ threads' = [threads EXCEPT ![t] =
                      IF ssh_client = NoSession
                      THEN [pc |-> "connecting", ssh |-> NoSession, result |-> "none"]
                      ELSE [pc |-> "exec", ssh |-> ssh_client, result |-> "none"]]
    /\ UNCHANGED << localVars, ssh_client, sessions >>

\* ssh.connect(...) returns or raises; on success `ssh_client = ssh`
Connect(t, connected) ==
    /\ threads[t].pc = "connecting"
    /\ IF connected
       THEN /\ \E s \in SessionIds : sessions[s] = "unused"
            /\ LET ssh == CHOOSE s \in SessionIds :
                              /\ sessions[s] = "unused"
                              /\ \A u \in SessionIds : sessions[u] = "unused" => s <= u
               IN /\ sessions' = [sessions EXCEPT ![ssh] = "open"]
                  /\ ssh_client' = ssh
                  /\ threads' = [threads EXCEPT ![t] =
                                    [pc |-> "exec", ssh |-> ssh, result |-> "none"]]
       ELSE /\ threads' = [threads EXCEPT ![t] =
                              [pc |-> "returned", ssh |-> NoSession, result |-> "None"]]
            /\ UNCHANGED << ssh_client, sessions >>
    /\ UNCHANGED localVars

\* ssh.exec_command(cmd) and stdout.read(): the output, or None when the
\* session is broken and paramiko raises
ExecCommand(t) ==
    /\ threads[t].pc = "exec"
    /\ LET ssh == threads[t].ssh
       IN IF sessions[ssh] = "open"
          THEN /\ threads' = [threads EXCEPT ![t] =
                                 [pc |-> "returned", ssh |-> ssh, result |-> "output"]]
               /\ UNCHANGED sessions
          ELSE /\ threads' = [threads EXCEPT ![t] =
                                 [pc |-> "returned", ssh |-> ssh, result |-> "None"]]
               /\ sessions' = [sessions EXCEPT ![ssh] = "failed"]
    /\ UNCHANGED << localVars, ssh_client >>

\* the connection is lost: the remote host restarts, the network drops
TransportFault(s) ==
    /\ sessions[s] = "open"
    /\ sessions' = [sessions EXCEPT ![s] = "broken"]
    /\ UNCHANGED << localVars, ssh_client, threads >>

\* collect_container_data: get_containers has returned in the main thread and
\* one probe per container is submitted to the executor
SubmitProbes ==
    /\ threads[MainThread].pc = "returned"
    /\ ContainersListed(threads[MainThread].result)
    /\ threads' = [t \in DOMAIN threads |->
                      IF t = MainThread THEN Resting("waiting") ELSE Resting("idle")]
    /\ UNCHANGED << localVars, ssh_client, sessions >>

\* the main thread goes on after a command: get_containers returned [], or
\* the command was one of adjust_resources or of the horizontal scaler
MainReturns ==
    /\ threads[MainThread].pc = "returned"
    /\ threads' = [threads EXCEPT ![MainThread] = Resting("idle")]
    /\ UNCHANGED << localVars, ssh_client, sessions >>

\* collect_data_for_container goes on to its next command
WorkerNextCommand(w) ==
    /\ threads[w].pc = "returned"
    /\ threads[w].result = "output"
    /\ threads' = [threads EXCEPT ![w] = Resting("idle")]
    /\ UNCHANGED << localVars, ssh_client, sessions >>

\* collect_data_for_container returns its sample or None
WorkerDone(w) ==
    /\ threads[w].pc = "returned"
    /\ threads' = [threads EXCEPT ![w] = Resting("done")]
    /\ UNCHANGED << localVars, ssh_client, sessions >>

\* the with block of the executor is left: every probe has completed
JoinWorkers ==
    /\ threads[MainThread].pc = "waiting"
    /\ \A w \in Workers : threads[w].pc = "done"
    /\ threads' = ThreadsAtStart
    /\ UNCHANGED << localVars, ssh_client, sessions >>

NextRemote ==
    \/ \E t \in DOMAIN threads : GetSshClient(t)
    \/ \E t \in DOMAIN threads, connected \in BOOLEAN : Connect(t, connected)
    \/ \E t \in DOMAIN threads : ExecCommand(t)
    \/ \E s \in SessionIds : TransportFault(s)
    \/ SubmitProbes
    \/ MainReturns
    \/ \E w \in Workers : WorkerNextCommand(w)
    \/ \E w \in Workers : WorkerDone(w)
    \/ JoinWorkers

\* one daemon that talks to a remote host (use_remote_proxmox)
InitRemote == InitWith({1}, FALSE, SaturatedHost, {FALSE}, {"normal"}, MinCores, MinMemory, ShippedTiers, NoBackups)
SpecRemote == InitRemote /\ [][NextRemote]_vars

\* ----------------------------------------------------------------- claims
CmdIndexes == 1 .. Len(cmds)
\* containers[ctid]: the sample of a container handled in the current tick
SampleOf(ctid) ==
    CHOOSE u \in {containers[i] : i \in 1 .. Len(containers)} : u.ct = ctid
\* a record with this action tag was written for the container in this tick
Emitted(ctid, action) ==
    \E i \in 1 .. Len(events) : events[i].ct = ctid /\ events[i].action = action
CoresInTier(ctid, n) == TierOf(ctid).min_cores <= n /\ n <= TierOf(ctid).max_cores

\* C1 as stated: every `pct set -cores` the vertical scaler issues sets a core
\* count within [min_cores, max_cores] of the container's tier.
C1_CoresWithinTier ==
    \A i \in CmdIndexes :
        cmds[i].op = "set_cores" => CoresInTier(cmds[i].ct, cmds[i].val)

\* C1 amended: for a container whose core count at the start of the tick was within
\* [min_cores, max_cores] of its tier, every `pct set -cores` issued in the tick
\* (increase, decrease or off-peak clamp) sets a core count within that range.
C1_CoresWithinTierFromWithin ==
    \A i \in CmdIndexes :
        (cmds[i].op = "set_cores"
         /\ CoresInTier(cmds[i].ct, SampleOf(cmds[i].ct).initial_cores))
        => CoresInTier(cmds[i].ct, cmds[i].val)

\* a tick in which containers that started within their tier were increased,
\* decreased and clamped
C1_Witness ==
    \E i, j, k \in 1 .. Len(containers) :
        /\ \A n \in {i, j, k} : CoresInTier(containers[n].ct, containers[n].initial_cores)
        /\ Emitted(containers[i].ct, "Increase Cores")
        /\ Emitted(containers[j].ct, "Decrease Cores")
        /\ Emitted(containers[k].ct, "Reduce Cores (Off-Peak)")

\* C2: every `pct set -memory` the vertical scaler issues sets at least min_memory
\* of the container's tier.
C2_MemoryAtLeastMin ==
    \A i \in CmdIndexes :
        cmds[i].op = "set_memory" => cmds[i].val >= TierOf(cmds[i].ct).min_memory

\* C3 as stated: within a tick the core increments granted sum to at most
\* total_cores - reserved_cores and the memory increments granted to at most
\* total_memory - reserved_memory.
C3_GrantsWithinInitialPool ==
    /\ granted.cores <= InitialAvailableCores(host.cores)
    /\ granted.memory <= InitialAvailableMemory(host.memory)

\* C3 amended: within a tick the core increments granted sum to at most
\* total_cores - reserved_cores plus the cores that decreases and off-peak clamps
\* handled earlier in the tick gave back to the pool, and likewise for memory.
C3_GrantsWithinPoolAndReleases ==
    /\ granted.cores <= InitialAvailableCores(host.cores) + released.cores
    /\ granted.memory <= InitialAvailableMemory(host.memory) + released.memory

\* a tick that granted more cores and more memory than the pool started with,
\* out of what was released before
C3_Witness ==
    /\ granted.cores > InitialAvailableCores(host.cores)
    /\ granted.memory > InitialAvailableMemory(host.memory)
    /\ released.cores >= granted.cores
    /\ released.memory >= granted.memory

\* C4: at most one process holds the lock; a process that exited with code 1 has
\* run no tick and no rollback; and a process launched while the lock is held
\* exits at once with code 1, issuing no command and writing no record.
C4_SingletonLock ==
    /\ [](/\ Cardinality(lock_holders) <= 1
          /\ \A p \in Daemons : exit_code[p] = 1 => p \notin worked)
    /\ [][\A p \in Daemons :
            (pc[p] = "start" /\ pc'[p] # "start" /\ lock_holders # {})
            => /\ pc'[p] = "exited" /\ exit_code'[p] = 1
               /\ lock_holders' = lock_holders /\ worked' = worked
               /\ cmds' = cmds /\ events' = events
               /\ cores' = cores /\ memory' = memory]_vars

\* a second process has exited with code 1 while the first, holding the lock, is
\* in the middle of a tick
C4_Witness ==
    \E p, q \in Daemons :
        /\ p # q
        /\ lock_holders = {p} /\ p \in worked /\ phase = "adjusting"
        /\ exit_code[q] = 1

\* C5: for every command issued in the tick, the backup record of its container
\* holds the (cores, memory) the container had at the start of the tick.
C5_BackupBeforeApply ==
    \A i \in CmdIndexes :
        load_backup_settings(cmds[i].ct) =
                             [ cores |-> SampleOf(cmds[i].ct).initial_cores,
                               memory |-> SampleOf(cmds[i].ct).initial_memory ]

\* C6: in a tick no container gets both an increase-cores and a decrease-cores
\* record, nor both an increase-memory and a decrease-memory record.
C6_TierDichotomy ==
    \A c \in BaseContainers :
        /\ ~(Emitted(c, "Increase Cores") /\ Emitted(c, "Decrease Cores"))
        /\ ~(Emitted(c, "Increase Memory") /\ Emitted(c, "Decrease Memory"))

\* a tick that increased the cores and memory of one container and decreased
\* those of another
C6_Witness ==
    \E c, d \in BaseContainers :
        /\ Emitted(c, "Increase Cores") /\ Emitted(c, "Increase Memory")
        /\ Emitted(d, "Decrease Cores") /\ Emitted(d, "Decrease Memory")

\* C7: any two successive Scale Out records of the group are at least
\* scale_out_grace_period seconds apart.
C7_ScaleOutsGraceApart ==
    \A i \in 1 .. Len(scale_out_times) - 1 :
        scale_out_times[i + 1] - scale_out_times[i]
            >= GroupConfig.scale_out_grace_period

\* C8: at the end of a tick with energy mode on and the hour off-peak, every
\* handled container that started at or above its tier's minima, and whose
\* commands were all carried out, has cores = min_cores and memory = min_memory.
C8_OffPeakEndsAtMinima ==
    (phase = "sleeping" /\ energy_mode /\ is_off_peak(current_hour))
    => \A i \in 1 .. Len(containers) :
          LET u == containers[i]
              t == TierOf(u.ct)
          IN (/\ u.initial_cores >= t.min_cores
              /\ u.initial_memory >= t.min_memory
              /\ \A k \in CmdIndexes : cmds[k].ct = u.ct => cmds[k].ok)
             => (cores[u.ct] = t.min_cores /\ memory[u.ct] = t.min_memory)

\* the key prioritize_containers sorts on, in reverse: (cpu, mem)
Hotter(a, b) == a.cpu > b.cpu \/ (a.cpu = b.cpu /\ a.mem > b.mem)

\* C9: the vertical scaler handles no container before a container of the same
\* tick with a strictly higher (cpu_pct, mem_pct).
C9_DescendingOrder ==
    phase \in {"adjusting", "sleeping"}
    => \A i, j \in 1 .. Len(containers) :
          i < j => ~Hotter(containers[j], containers[i])

\* the total order of the priority: cpu_pct descending, mem_pct descending, id
\* ascending
PriorityBefore(a, b) ==
    Hotter(a, b) \/ (a.cpu = b.cpu /\ a.mem = b.mem /\ a.ct < b.ct)

\* the loop of adjust_resources over the samples in `order`, from a given pool:
\* the commands issued and the records written
RECURSIVE AdjustAll(_, _, _)
AdjustAll(order, pool_cores, pool_memory) ==
    IF order = <<>> THEN [cmds |-> <<>>, events |-> <<>>]
    ELSE LET step == AdjustOne(Head(order), energy_mode, behaviour, current_hour,
                               pool_cores, pool_memory)
             rest == AdjustAll(Tail(order), step.available_cores,
                               step.available_memory)
         IN [ cmds |-> step.cmds \o rest.cmds, events |-> step.events \o rest.events ]

\* a command as issued, without its outcome
SetOf(c) == [op |-> c.op, ct |-> c.ct, val |-> c.val]

\* C10: when two containers of the tick have equal (cpu_pct, mem_pct), the
\* commands issued and the records written in the tick are those of handling the
\* containers in the total order (cpu desc, mem desc, id asc), whatever the order
\* in which the probes completed.
C10_TieOrderIndependent ==
    (/\ phase = "sleeping"
     /\ \E i, j \in 1 .. Len(containers) :
           i # j /\ containers[i].cpu = containers[j].cpu
                 /\ containers[i].mem = containers[j].mem)
    => LET sorted == AdjustAll(SortSeq(containers, PriorityBefore),
                               InitialAvailableCores(host.cores),
                               InitialAvailableMemory(host.memory))
       IN /\ {SetOf(cmds[i]) : i \in CmdIndexes}
               = {sorted.cmds[i] : i \in 1 .. Len(sorted.cmds)}
          /\ {events[i] : i \in 1 .. Len(events)}
               = {sorted.events[i] : i \in 1 .. Len(sorted.events)}

\* the last thing done on the host was a rollback
RolledBack == last_done \in {"rollback", "rollback_twice", "failed_rollback"}
Issued(op, ctid, val) ==
    \E i \in CmdIndexes : cmds[i].op = op /\ cmds[i].ct = ctid /\ cmds[i].val = val

\* C11: when rollback is invoked, for every listed container that has a backup
\* record the set-cores and set-memory commands are issued with the backed-up
\* values and a rollback record is emitted for that container; no tick of the
\* control loop runs while a process is in rollback mode.
C11_RollbackRestoresAndRecords ==
    /\ (\E p \in Daemons : pc[p] = "rollback") => phase = "idle"
    /\ RolledBack =>
          \A c \in get_containers :
              load_backup_settings(c) # NoBackup
              => /\ Issued("set_cores", c, load_backup_settings(c).cores)
                 /\ Issued("set_memory", c, load_backup_settings(c).memory)
                 /\ Emitted(c, "rollback")

\* C12: a rollback whose commands are carried out, right after a rollback whose
\* commands were carried out, changes no container's cores or memory and no
\* backup record: twice is the same as once.
C12_RollbackIdempotent ==
    [][(last_done \in {"rollback", "rollback_twice"} /\ last_done' = "rollback_twice")
       => (cores' = cores /\ memory' = memory /\ backup' = backup)]_vars

\* two rollbacks in a row have restored container 101 from its backup
C12_Witness ==
    /\ last_done = "rollback_twice"
    /\ \E c \in get_containers :
          /\ load_backup_settings(c) # NoBackup
          /\ Issued("set_cores", c, load_backup_settings(c).cores)
          /\ cores[c] = load_backup_settings(c).cores
          /\ memory[c] = load_backup_settings(c).memory
          /\ \E d \in GrownCores[c] : d # cores[c]

\* a record of the event log that reports an error
IsErrorRecord(e) ==
    e.action \in {"error", "Error", "horizontal_scaling_error",
                  "Error: horizontal_scaling_error"}
ErrorEmitted(ctid) ==
    \E i \in 1 .. Len(events) : events[i].ct = ctid /\ IsErrorRecord(events[i])

\* C13: when the snapshot, clone or start command of a scale-out fails, the
\* step leaves the group's membership as it was and the event log holds an
\* error record afterwards.
C13_FailedScaleOutLeavesGroup ==
    [][(\E i \in (Len(cmds) + 1) .. Len(cmds') :
           cmds'[i].op \in {"snapshot", "clone", "start"} /\ ~cmds'[i].ok)
       => /\ lxc_containers' = lxc_containers
          /\ \E j \in 1 .. Len(events') : IsErrorRecord(events'[j])]_vars

\* what the increases of one kind that the executor carried out took from the pool
RECURSIVE CarriedOutGrant(_, _)
CarriedOutGrant(op, n) ==
    IF n = 0 THEN 0
    ELSE LET c == cmds[n]
             before == IF op = "set_cores" THEN SampleOf(c.ct).initial_cores
                       ELSE SampleOf(c.ct).initial_memory
         IN (IF c.op = op /\ c.ok /\ c.val > before THEN c.val - before ELSE 0)
            + CarriedOutGrant(op, n - 1)

\* a failed command of the tick that was to raise a container's cores or memory
FailedIncrease(c) ==
    /\ ~c.ok
    /\ \/ c.op = "set_cores" /\ c.val > SampleOf(c.ct).initial_cores
       \/ c.op = "set_memory" /\ c.val > SampleOf(c.ct).initial_memory

\* C14: when the apply command of a core or memory increase fails, the pool is
\* reconciled (it is short only of the increases that were carried out), no
\* increase record is emitted for the container, and an error record is.
C14_FailedIncreaseReconciled ==
    phase \in {"adjusting", "sleeping"}
    => /\ \A i \in CmdIndexes :
             FailedIncrease(cmds[i])
             => /\ cmds[i].op = "set_cores" => ~Emitted(cmds[i].ct, "Increase Cores")
                /\ cmds[i].op = "set_memory" => ~Emitted(cmds[i].ct, "Increase Memory")
                /\ ErrorEmitted(cmds[i].ct)
       /\ available_cores = InitialAvailableCores(host.cores)
                              - CarriedOutGrant("set_cores", Len(cmds)) + released.cores
       /\ available_memory = InitialAvailableMemory(host.memory)
                               - CarriedOutGrant("set_memory", Len(cmds)) + released.memory

\* the TIER_ section a container was configured with, before config.py
\* filled it up from DEFAULTS
SectionOf(ctid) ==
    CHOOSE section \in BrokenSections \cup {TierSection} :
        section.tier_name = tiers[ctid].tier_name

\* the section breaks a rule of the tier contract
BreaksTierRule(section) ==
    \/ \E f \in DOMAIN RequiredFields :
          \/ f \notin DOMAIN section
          \/ section[f] < RequiredFields[f][1]
          \/ (RequiredFields[f][2] # -1 /\ section[f] > RequiredFields[f][2])
    \/ section.cpu_lower_threshold >= section.cpu_upper_threshold
    \/ section.memory_lower_threshold >= section.memory_upper_threshold
    \/ section.min_cores > section.max_cores
    \/ section.core_min_increment > section.core_max_increment

\* C15: a container whose tier breaks a validation rule (a missing or wrongly
\* signed field, thresholds the wrong way round or outside [0,100], min_cores
\* above max_cores, min_memory below 128, core_min_increment above
\* core_max_increment) gets no apply command in the tick and an error record
\* is emitted for it
C15_InvalidTierSkippedWithError ==
    \A i \in 1 .. Len(containers) :
        LET ctid == containers[i].ct
        IN (/\ phase \in {"adjusting", "sleeping"}
            /\ i <= idx
            /\ ctid \in DOMAIN tiers
            /\ BreaksTierRule(SectionOf(ctid)))
           => /\ \A j \in CmdIndexes : cmds[j].ct # ctid
              /\ ErrorEmitted(ctid)

\* C16: a failure while one container is handled (a failed apply command, an
\* exception while deciding or recording) does not keep the remaining
\* containers of the tick from being evaluated: when the tick is over, in
\* the sleep of main_loop or in its handler, every sample has been handled
C16_FailureStaysLocal ==
    phase \in {"failed", "sleeping"} => idx = Len(containers)

\* C17: when the tick body raises, the control loop does not end: unless a
\* signal ends it, the process stays in main_loop, it leaves the handler only
\* by sleeping the whole poll interval without counting a tick, and a tick
\* starts only from the top of the loop, after that sleep
C17_ErrorSleepsFullInterval ==
    [][/\ (phase = "failed" /\ last_done' # "signal")
          => /\ \A p \in Daemons : pc[p] = "main_loop" => pc'[p] = "main_loop"
             /\ \/ phase' = "failed" /\ now' = now /\ tick' = tick
                \/ phase' = "idle" /\ now' = now + POLL_INTERVAL /\ tick' = tick
       /\ tick' # tick
          => /\ phase = "idle"
             /\ last_done = "failed_tick" => now >= loop_start_time + POLL_INTERVAL]_vars

\* C18: a signal that arrives while a tick is in progress does not stop the
\* daemon in the middle of it: a process leaves main_loop only when no tick
\* is being probed or adjusted, and then with exit code 0
C18_SignalWaitsForTick ==
    [][\A p \in Daemons :
          (pc[p] = "main_loop" /\ pc'[p] = "exited")
          => /\ phase \notin {"probing", "adjusting"}
             /\ exit_code'[p] = 0]_vars

\* the group holds max_instances members
GroupFull == Cardinality(lxc_containers) >= GroupConfig.max_instances

\* C19: a scale-out is performed only for a group with fewer than
\* max_instances members: the membership never grows above max_instances, and
\* no step issues a snapshot or clone command while the group is full
C19_NeverAboveMaxInstances ==
    [][/\ Cardinality(lxc_containers) <= GroupConfig.max_instances
       /\ Cardinality(lxc_containers') <= GroupConfig.max_instances
       /\ GroupFull
          => \A i \in (Len(cmds) + 1) .. Len(cmds') :
                cmds'[i].op \notin {"snapshot", "clone"}]_vars

\* the group is full, the tick called scale_out at this very time and no
\* snapshot was taken
C19_Witness ==
    /\ GroupFull
    /\ phase = "sleeping"
    /\ scale_last_action = now
    /\ \A i \in CmdIndexes : cmds[i].op \notin {"snapshot", "clone"}

\* the cloned members of the group
ClonedMembers == {c \in lxc_containers : c >= GroupConfig.starting_clone_id}

\* C20: when the scale-in predicate holds for the group and no scale-out was
\* chosen, the step of the horizontal scaler that records the group's metrics
\* stops and destroys the highest-numbered cloned member and removes it from
\* the membership
C20_ScaleInRemovesHighestClone ==
    [][(/\ phase = "adjusting"
        /\ idx = Len(containers)
        /\ ScaleInChosen
        /\ ClonedMembers # {}
        /\ Len(events') > Len(events)
        /\ pc' = pc)
       => LET highest == CHOOSE c \in ClonedMembers : \A d \in ClonedMembers : d <= c
          IN /\ lxc_containers' = lxc_containers \ {highest}
             /\ \E i \in 1 .. Len(cmds') : cmds'[i].op = "stop" /\ cmds'[i].ct = highest
             /\ \E i \in 1 .. Len(cmds') : cmds'[i].op = "destroy" /\ cmds'[i].ct = highest]_vars

\* C21: a backup save is atomic with respect to a crash: when the process has
\* stopped at any point of a save, load_backup_settings of that container
\* returns the previous complete record or the new complete record
C21_SaveAtomic ==
    save.pc = "stopped"
    => \/ load_backup_settings(save.ct) = save.settings
       \/ /\ save.previous # NoFile
          /\ load_backup_settings(save.ct) = json_load(save.previous)

\* the sample adjust_resources handles next, and its tier
NextUsage == containers[idx + 1]
\* a step of adjust_resources that handled a sample and went on
Handled == phase = "adjusting" /\ idx < Len(containers) /\ idx' = idx + 1 /\ phase' = "adjusting"
\* the commands and records the step added
NewCmds == {cmds'[i] : i \in (Len(cmds) + 1) .. Len(cmds')}
NewEvents == {events'[i] : i \in (Len(events) + 1) .. Len(events')}

\* the increment of the tier contract at multiplier 1.0: the proportional
\* amount clamped to the tier's increments and capped at the room left
CappedIncrement(usage, config) ==
    Min(Min(Max(Trunc(usage.cpu - config.cpu_upper_threshold, CPU_SCALE_DIVISOR),
                config.core_min_increment),
            config.core_max_increment),
        config.max_cores - usage.initial_cores)

\* C22: when cpu_pct > cpu_upper and cores < max_cores, the increment is the
\* proportional amount clamped to the tier's increments and capped at
\* max_cores - cores; if the pool holds that many cores, the container is set
\* to cores + inc and an increase-cores record with delta inc is emitted.
\* Stated for the multiplier 1.0.
C22_IncreaseCappedAtMax ==
    [][(/\ Handled
        /\ get_behaviour_multiplier_x10(behaviour, current_hour) = 10
        /\ validate_tier_settings(TierOf(NextUsage.ct))
        /\ NextUsage.cpu > TierOf(NextUsage.ct).cpu_upper_threshold
        /\ NextUsage.initial_cores < TierOf(NextUsage.ct).max_cores
        /\ available_cores >= CappedIncrement(NextUsage, TierOf(NextUsage.ct)))
       => LET inc == CappedIncrement(NextUsage, TierOf(NextUsage.ct))
          IN /\ \E c \in NewCmds : c.op = "set_cores" /\ c.ct = NextUsage.ct
                                   /\ c.val = NextUsage.initial_cores + inc
             /\ \E e \in NewEvents : e.ct = NextUsage.ct /\ e.action = "Increase Cores"
                                     /\ e.change = inc]_vars

\* C23: when the vertical phase of a tick starts, available_cores is the
\* host's core count less max(1, the reserve percentage of it) and
\* available_memory is the host's memory less the reserve: the reserve is
\* taken off once
C23_ReserveSubtractedOnce ==
    (phase = "adjusting" /\ idx = 0)
    => /\ available_cores =
             host.cores - Max(1, Trunc(host.cores * RESERVE_CPU_PERCENT, 100))
       /\ available_memory = host.memory - RESERVE_MEMORY_MB

\* the value the last command of kind op of the tick set on the container, or
\* the value it started the tick with
LastCommanded(ctid, op, before) ==
    LET hits == SelectSeq(cmds, LAMBDA c : c.op = op /\ c.ct = ctid)
    IN IF hits = <<>> THEN before ELSE Last(hits).val

\* what the sampled containers of the set were given in the tick, in cores or
\* in memory: the value last set less the value at the start of the tick
RECURSIVE NetChange(_, _)
NetChange(samples, op) ==
    IF samples = {} THEN 0
    ELSE LET u == CHOOSE x \in samples : TRUE
             before == IF op = "set_cores" THEN u.initial_cores ELSE u.initial_memory
         IN (LastCommanded(u.ct, op, before) - before) + NetChange(samples \ {u}, op)

\* C24: at the end of a tick's vertical phase available_cores is its value at
\* the start of the phase less the sum over the containers of (cores last set
\* in the tick - cores at the start of the tick), and likewise for memory
C24_PoolMatchesChanges ==
    (phase = "adjusting" /\ idx = Len(containers))
    => /\ available_cores =
             InitialAvailableCores(host.cores) - NetChange(GroupSamples, "set_cores")
       /\ available_memory =
             InitialAvailableMemory(host.memory) - NetChange(GroupSamples, "set_memory")

\* the cores, or the memory, the containers of the set hold
RECURSIVE Allocated(_, _)
Allocated(setting, ids) ==
    IF ids = {} THEN 0
    ELSE LET c == CHOOSE x \in ids : TRUE
         IN setting[c] + Allocated(setting, ids \ {c})

\* the host's cores and memory less the reserve
HostCoresLessReserve == host.cores - Max(1, Trunc(host.cores * RESERVE_CPU_PERCENT, 100))
HostMemoryLessReserve == host.memory - RESERVE_MEMORY_MB

\* C25: the cores allocated to the containers sum to at most total_cores -
\* reserved_cores after every step of a tick that goes through if they did
\* before it, and likewise for memory
C25_AllocationWithinHost ==
    [][phase' # "failed"
       => /\ Allocated(cores, BaseContainers) <= HostCoresLessReserve
             => Allocated(cores', BaseContainers) <= HostCoresLessReserve
          /\ Allocated(memory, BaseContainers) <= HostMemoryLessReserve
             => Allocated(memory', BaseContainers) <= HostMemoryLessReserve]_vars


\* C26: when cpu_pct < cpu_lower and cores > min_cores under a valid tier,
\* there is a decrement dec with 1 <= dec <= cores - min_cores such that the
\* container is set to cores - dec, the pool grows by dec and the
\* decrease-cores record carries dec. Stated with the off-peak clamp idle and
\* every pct command of the step succeeding.
C26_DecrementReleasedAndRecorded ==
    [][(/\ Handled
        /\ \A c \in NewCmds : c.ok
        /\ ~(energy_mode /\ is_off_peak(current_hour))
        /\ validate_tier_settings(TierOf(NextUsage.ct))
        /\ AllTruthy(TierOf(NextUsage.ct))
        /\ NextUsage.cpu < TierOf(NextUsage.ct).cpu_lower_threshold
        /\ NextUsage.initial_cores > TierOf(NextUsage.ct).min_cores)
       => \E dec \in 1 .. (NextUsage.initial_cores - TierOf(NextUsage.ct).min_cores) :
             /\ \E c \in NewCmds : c.op = "set_cores" /\ c.ct = NextUsage.ct
                                   /\ c.val = NextUsage.initial_cores - dec
             /\ available_cores' = available_cores + dec
             /\ \E e \in NewEvents : e.ct = NextUsage.ct /\ e.action = "Decrease Cores"
                                     /\ e.change = dec]_vars


\* the amount adjust_resources asks the pool for on behalf of a hot sample
IncrementOf(usage) ==
    calculate_increment(usage.cpu, TierOf(usage.ct).cpu_upper_threshold, TierOf(usage.ct).core_min_increment, TierOf(usage.ct).core_max_increment)

\* a sample above its upper CPU threshold, one core short of nothing: it asks
\* for one core and has room for it
WantsOneCore(usage) ==
    /\ usage.cpu > TierOf(usage.ct).cpu_upper_threshold
    /\ IncrementOf(usage) = 1
    /\ usage.initial_cores < TierOf(usage.ct).max_cores

\* C27: with one core in the pool of the tick and two samples A and B that
\* each want one core, A the hotter, at the end of the vertical phase A has
\* been set to one core more, B has been sent no command and keeps its
\* cores, the pool is empty and no record names B's cores. Stated for ticks
\* whose commands all succeed.
C27_HotterTakesLastCore ==
    (/\ phase = "adjusting" /\ idx = Len(containers)
     /\ InitialAvailableCores(host.cores) = 1
     /\ \A k \in 1 .. Len(cmds) : cmds[k].ok)
    => \A i, j \in 1 .. Len(containers) :
          LET A == containers[i]
              B == containers[j]
          IN (Hotter(A, B) /\ WantsOneCore(A) /\ WantsOneCore(B))
             => /\ \E k \in 1 .. Len(cmds) :
                      SetOf(cmds[k]) = SetCores(A.ct, A.initial_cores + 1)
                /\ \A k \in 1 .. Len(cmds) :
                      ~(cmds[k].op = "set_cores" /\ cmds[k].ct = B.ct)
                /\ cores[B.ct] = B.initial_cores
                /\ available_cores = 0
                /\ \A k \in 1 .. Len(events) :
                      ~(events[k].ct = B.ct
                        /\ events[k].action \in {"Increase Cores", "Decrease Cores"})


\* C28, as the step every tick of such a run takes: a handled sample above
\* its upper CPU threshold and below max_cores under a valid tier, with the
\* pool holding the computed increment and the pct commands succeeding, leaves
\* the container with more cores than before. A step that leaves the cores
\* as they were is taken again in every later tick with the same usage, and
\* max_cores is never reached.
C28_HotContainerGains ==
    [][(/\ Handled
        /\ \A c \in NewCmds : c.ok
        /\ ~(energy_mode /\ is_off_peak(current_hour))
        /\ validate_tier_settings(TierOf(NextUsage.ct))
        /\ AllTruthy(TierOf(NextUsage.ct))
        /\ NextUsage.cpu > TierOf(NextUsage.ct).cpu_upper_threshold
        /\ NextUsage.initial_cores < TierOf(NextUsage.ct).max_cores
        /\ available_cores >= IncrementOf(NextUsage))
       => cores'[NextUsage.ct] > cores[NextUsage.ct]]_vars


\* the multiplier of a behaviour, in tenths: 0.5, 1.0 or 2.0
BaseMultiplier_x10 ==
    IF behaviour = "conservative" THEN 5 ELSE IF behaviour = "aggressive" THEN 20 ELSE 10

\* C29: while adjust_resources handles the samples of a tick, the behaviour
\* multiplier is 0.5, 1.0 or 2.0 by behaviour, times 0.8 exactly when the
\* hour of the tick is inside the off-peak window as is_off_peak defines it
C29_MultiplierFollowsWindow ==
    phase = "adjusting"
    => get_behaviour_multiplier_x10(behaviour, current_hour)
         = IF is_off_peak(current_hour)
           THEN (BaseMultiplier_x10 * 8) \div 10 ELSE BaseMultiplier_x10


\* C30: a sample of a container that is not ignored and whose tier passes
\* validate_tier_settings is evaluated: when its CPU usage is above the upper
\* threshold and the pool and max_cores allow the increment, the step that
\* handles it issues the set_cores command, also when a lower threshold of
\* the tier is 0
C30_ValidTierEvaluated ==
    [][(/\ Handled
        /\ ~is_ignored(NextUsage.ct)
        /\ validate_tier_settings(TierOf(NextUsage.ct))
        /\ NextUsage.cpu > TierOf(NextUsage.ct).cpu_upper_threshold
        /\ CanIncreaseCores(available_cores, IncrementOf(NextUsage), NextUsage.initial_cores + IncrementOf(NextUsage), TierOf(NextUsage.ct).max_cores))
       => \E c \in NewCmds :
             SetOf(c) = SetCores(NextUsage.ct, NextUsage.initial_cores + IncrementOf(NextUsage))]_vars


\* the clone commands issued by the step
NewClones == {c \in NewCmds : c.op = "clone"}

\* C31: a clone command of a scale-out names the id starting_clone_id + (number
\* of current members with id >= starting_clone_id) and the hostname
\* <base>-cloned-<number of members + 1>; when the scale-out goes on to start
\* the clone, the membership becomes the old membership plus that id
C31_CloneIdHostnameMembership ==
    [][\A c \in NewClones :
          /\ c.ct = GroupConfig.starting_clone_id + Cardinality(ClonedMembers)
          /\ c.hostname = << GroupConfig.base_snapshot_name, "-cloned-",
                             Cardinality(lxc_containers) + 1 >>
          /\ (\E d \in NewCmds : d.op = "start" /\ d.ct = c.ct)
             => lxc_containers' = lxc_containers \cup {c.ct}]_vars

\* two scale-outs went through: the second clone got the id after the first
\* and the hostname numbered one above the three members it found
C31_Witness ==
    /\ lxc_containers = InitialGroupMembers
                          \cup {GroupConfig.starting_clone_id, GroupConfig.starting_clone_id + 1}
    /\ \E i \in CmdIndexes :
          /\ cmds[i].op = "clone" /\ cmds[i].ok
          /\ cmds[i].ct = GroupConfig.starting_clone_id + 1
          /\ cmds[i].hostname = << GroupConfig.base_snapshot_name, "-cloned-", 4 >>


\* the hour lies in the window from off_peak_start to off_peak_end, which
\* wraps past midnight when start >= end
InWindow(hour) ==
    \/ off_peak_start < off_peak_end /\ off_peak_start <= hour /\ hour < off_peak_end
    \/ off_peak_start >= off_peak_end /\ (hour >= off_peak_start \/ hour < off_peak_end)

\* C32: in a tick with energy mode on, the off-peak test is true iff the hour
\* of the tick lies in the window, both as scaling_manager.py and as
\* lxc_autoscale.py compute it
C32_OffPeakTestIsWindow ==
    (phase = "adjusting" /\ energy_mode)
    => /\ is_off_peak(current_hour) <=> InWindow(current_hour)
       /\ lxc_autoscale_is_off_peak(energy_mode, current_hour) <=> InWindow(current_hour)


C34_ExitStatusDecides ==
    [][/\ (\E c \in NewCmds : c.op = "snapshot" /\ c.ok) => NewClones # {}
       /\ \A c \in NewClones :
             c.ok => /\ \E d \in NewCmds : d.op = "start" /\ d.ct = c.ct
                     /\ c.ct \in lxc_containers']_vars


\* thread t enters ssh.connect in this step
StartsConnecting(t) == threads[t].pc # "connecting" /\ threads'[t].pc = "connecting"

\* C35: with the remote back-end at most one session is open at any time, and
\* no thread starts to connect while a session is open or another thread is
\* connecting
C35_OneSession ==
    [][/\ Cardinality({s \in SessionIds : sessions'[s] = "open"}) <= 1
       /\ \A t \in DOMAIN threads :
             StartsConnecting(t)
             => /\ OpenSessions = {}
                /\ \A u \in DOMAIN threads \ {t} : threads[u].pc # "connecting"]_vars

\* the probe workers are inside exec_command at the same time, on the one
\* session that is open
C35_Witness ==
    /\ \A w \in Workers : threads[w].pc = "exec" /\ threads[w].ssh = ssh_client
    /\ OpenSessions = {ssh_client}

\* thread t enters exec_command in this step
StartsCommand(t) == threads[t].pc # "exec" /\ threads'[t].pc = "exec"

\* C36: once a command has failed on a broken session, no later command is
\* sent over that session: the command that follows runs on a session that
\* was established anew
C36_ReconnectAfterFault ==
    [][\A t \in DOMAIN threads :
          StartsCommand(t) => sessions[threads'[t].ssh] # "failed"]_vars


\* the addresses the clones of the group hold
AddressesHeld == {net0[c] : c \in ClonedMembers} \ {NoAddress}

\* the pool in order, without the addresses the clones of the group hold
UnusedAddresses ==
    SelectSeq(GroupConfig.static_ip_range, LAMBDA ip : ip \notin AddressesHeld)

\* C37: in static network mode the address a scale-out passes to pct set is
\* the first address of the pool that no clone of the group holds
C37_FirstUnusedAddress ==
    [][clone_network_type = "static"
       => \A c \in {n \in NewCmds : n.op = "net"} :
             UnusedAddresses # <<>> /\ c.ip = UnusedAddresses[1]]_vars


\* set-cores and set-memory commands issued for a container in the tick
VerticalCmds(ctid) ==
    SelectSeq(cmds, LAMBDA c : c.ct = ctid /\ c.op \in {"set_cores", "set_memory"})

\* the listed containers of the ignore list
IgnoredListed == {c \in pct_list : is_ignored(c)}

\* C38: a container that is in the ignore list, or that the probe of the tick
\* found not running, has no sample in the tick and gets no set-cores or
\* set-memory command in it
C38_NoSampleNoCommand ==
    \A c \in IgnoredListed \cup not_running :
        /\ \A i \in 1 .. Len(containers) : containers[i].ct # c
        /\ VerticalCmds(c) = <<>>

\* adjust_resources has handled the samples of a tick in which a clone was
\* listed and ignored and one container was found not running; the other
\* container was sampled and commanded
C38_Witness ==
    /\ phase = "adjusting"
    /\ idx = Len(containers)
    /\ IgnoredListed # {}
    /\ not_running # {}
    /\ \E i \in 1 .. Len(containers) : VerticalCmds(containers[i].ct) # <<>>

====
